---- MODULE Spec2Model ----
(***************************************************************************)
(* Model of the WhatsApp webhook gateway of src/app.py: the session store  *)
(* ConversationManager (a TTL cache from sender to ChatAssistant, guarded  *)
(* by one threading.Lock) and the /eventgrid handler eventgrid_listener,   *)
(* which walks a batch of Event Grid events, answers the subscription      *)
(* validation handshake, and for every received message looks the session  *)
(* up, asks the assistant for a reply and sends it back.                   *)
(*                                                                         *)
(* Every HTTP request runs on its own thread (Flask), so a request is a    *)
(* process with a program counter; the wall clock advances on its own.     *)
(***************************************************************************)
EXTENDS Integers, Sequences, FiniteSets, TLC

\* ------------------------------------------------------------------ bounds

\* Longest batch (number of entries of the JSON list) a request carries.
MaxBatch == 2

\* Longest batch of message events of requests that run concurrently.
MaxMessages == 1

\* The request threads that can be in flight together.
Requests == {"r1", "r2"}

\* ------------------------------------------------------- program constants

\* conversation_manager = ConversationManager(expiry_seconds=1800)
expiry_seconds == 1800

VALIDATION == "Microsoft.EventGrid.SubscriptionValidationEvent"
MESSAGE == "Microsoft.Communication.AdvancedMessageReceived"

\* ------------------------------------------------------------------ inputs

\* Instants at which time.time() is observed: the start, a moment later, and
\* the moments around one TTL after either.
Instants == { 0, 1, expiry_seconds, expiry_seconds + 1, expiry_seconds + 2 }

\* Strings the code inspects character by character are sequences of characters.
\* The messages a batch can carry, as <<from, content>>: a sender without and
\* with the leading "+", and a second sender.
Messages == { << <<"1">>, "hello" >>, << <<"+", "1">>, "hi" >>, << <<"2">>, "hello" >> }
Froms == { m[1] : m \in Messages }
Codes == { "abc123", "xyz789" }

NoBot == 0
NoText == ""
NoUid == << >>

\* One entry of the decoded JSON list.  dict = FALSE is an entry that is not a
\* JSON object (a string, a number): it has no .get method.
ValidationEvents ==
    { [dict |-> TRUE, eventType |-> VALIDATION, validationCode |-> c,
       from |-> NoUid, content |-> NoText] : c \in Codes }
MessageEvents ==
    { [dict |-> TRUE, eventType |-> MESSAGE, validationCode |-> NoText,
       from |-> m[1], content |-> m[2]] : m \in Messages }
OtherEvent ==
    [dict |-> TRUE, eventType |-> "Other", validationCode |-> NoText,
     from |-> NoUid, content |-> NoText]
NonDict ==
    [dict |-> FALSE, eventType |-> NoText, validationCode |-> NoText,
     from |-> NoUid, content |-> NoText]
Entries == ValidationEvents \cup MessageEvents \cup {OtherEvent, NonDict}

SeqsUpTo(S, n) == UNION { [1 .. k -> S] : k \in 0 .. n }

\* A request body: a JSON list of entries, a single JSON object (one event
\* structure), or bytes that do not decode as JSON.
Payloads ==
    { [shape |-> "list", items |-> s] : s \in SeqsUpTo(Entries, MaxBatch) }
    \cup { [shape |-> "dict", items |-> <<e>>] :
             e \in ValidationEvents \cup MessageEvents }
    \cup { [shape |-> "undecodable", items |-> << >>] }

\* Batches of message events only, from two senders.
MessageBatches ==
    { [shape |-> "list", items |-> s] :
        s \in SeqsUpTo({ e \in MessageEvents : e.content = "hello" }, MaxMessages) }

\* Bodies that carry exactly one message event.
SingleMessages ==
    { [shape |-> "list", items |-> << e >>] :
        e \in { m \in MessageEvents : m.content = "hello" } }

\* ------------------------------------------------------------------- state

VARIABLES
    now,            \* time.time()
    conversations,  \* ConversationManager.conversations: uid -> {bot, last_activity}
    lock,           \* ConversationManager.lock: its holder, or Free
    bots,           \* number of ChatAssistant objects constructed so far
    pc,             \* where each request thread is
    payload,        \* the body of each request
    i,              \* index of the entry the for loop is at
    from_number,    \* eventgrid_listener: from_number
    message_body,   \* eventgrid_listener: message_body
    t0,             \* get_or_create: now (read before the lock is taken)
    t1,             \* cleanup: now (read under the lock)
    found,          \* the entry of from_number when the call took the lock
    run_status,     \* ChatAssistant.chat: run.status, as last reported
    bot,            \* eventgrid_listener: bot
    reply,          \* eventgrid_listener: reply
    response,       \* the HTTP response of each request
    effects         \* per request: the calls it has made, in order

vars == << now, conversations, lock, bots, pc, payload, i, from_number,
           message_body, t0, t1, found, run_status, bot, reply, response,
           effects >>

Free == "free"
NoEntry == [bot |-> NoBot, last_activity |-> -1]
NoResponse == [status |-> 0, body |-> << >>]

\* ------------------------------------------------------------ pure helpers

\* from_number.startswith("+")
startswith_plus(f) == Len(f) > 0 /\ f[1] = "+"

\* Mutant: the sender is used as received.
normalizeNot(f) == f

\* if not from_number.startswith("+"): from_number = f"+{from_number}"
normalize(f) == IF startswith_plus(f) THEN f ELSE <<"+">> \o f

\* The keys the conversations dict can hold.
Uids == { normalize(f) : f \in Froms }

\* user_id in self.conversations
Has(convs, uid) == convs[uid] # NoEntry

\* Mutant: the entry whose age equals the TTL is expired too.
IsExpiredAtTtl(data, t) == t - data.last_activity >= expiry_seconds

\* now - data["last_activity"] > self.expiry_seconds
IsExpired(data, t) == t - data.last_activity > expiry_seconds

\* Mutant: the sweep deletes nothing.
cleanupNothing(convs, t) == convs

\* Mutant: the sweep deletes every entry.
cleanupEverything(convs, t) == [u \in Uids |-> NoEntry]

\* cleanup(): delete every expired entry, keep the others as they are.
cleanup(convs, t) ==
    [u \in Uids |->
        IF Has(convs, u) /\ IsExpired(convs[u], t) THEN NoEntry ELSE convs[u]]

\* Mutant: no mutual exclusion.
CanAcquireAlways(l) == TRUE

\* with self.lock: the lock can be taken when nobody holds it.
CanAcquire(l) == l = Free

\* Mutant: any body is taken as a decoded batch.
DecodesAnything(p) == TRUE

\* Mutant: the whole batch is classified first, and an entry that is not an
\* event structure makes the body undecodable.
DecodesStrict(p) ==
    /\ p.shape # "undecodable"
    /\ \A k \in DOMAIN p.items : p.items[k].dict

\* request.get_json(): a body that is not JSON raises BadRequest.
Decodes(p) == p.shape # "undecodable"

\* for e in event: a list yields its entries; a dict yields its keys, which
\* are strings (an event structure has the keys "eventType" and "data").
Iterate(p) ==
    IF p.shape = "dict" THEN <<NonDict, NonDict>> ELSE p.items

\* jsonify({"validationResponse": e["data"]["validationCode"]}), status 200
ValidationReply(e) ==
    [status |-> 200, body |-> <<"validationResponse", e.validationCode>>]

\* return "", 200
Accepted == [status |-> 200, body |-> << >>]

\* abort(400, str(ex))
Aborted == [status |-> 400, body |-> <<"error">>]

\* What chat can return: the assistant's text for the message.
Replies(b, text) == { "re: " \o text }

\* run.status values: those the while loop of chat waits on, and the others.
Pending == { "queued", "in_progress", "cancelling" }
Statuses == Pending \cup { "completed", "requires_action", "failed" }

\* The run is completed by the time runs.create returns.
Completed == { "completed" }

\* No run has been created.
NoRun == "none"

\* What chat returns once the loop is over with status st.
ChatResult(b, text, st) ==
    IF st = "completed" THEN Replies(b, text)
    ELSE IF st = "requires_action" THEN { "Assistant requires further action." }
    ELSE { "Run ended with status: " \o st }

Effect(op, uid, b, text) == [op |-> op, uid |-> uid, bot |-> b, text |-> text]

Init ==
    /\ now = 0
    /\ conversations = [u \in Uids |-> NoEntry]
    /\ lock = Free
    /\ bots = 0
    /\ pc = [r \in Requests |-> "idle"]
    /\ payload = [r \in Requests |-> [shape |-> "list", items |-> << >>]]
    /\ i = [r \in Requests |-> 0]
    /\ from_number = [r \in Requests |-> NoUid]
    /\ message_body = [r \in Requests |-> NoText]
    /\ t0 = [r \in Requests |-> 0]
    /\ t1 = [r \in Requests |-> 0]
    /\ found = [r \in Requests |-> NoEntry]
    /\ run_status = [r \in Requests |-> NoRun]
    /\ bot = [r \in Requests |-> NoBot]
    /\ reply = [r \in Requests |-> NoText]
    /\ response = [r \in Requests |-> NoResponse]
    /\ effects = [r \in Requests |-> << >>]

\* ----------------------------------------------------------------- actions

\* Time passes.
Tick ==
    /\ \E t \in Instants : t > now /\ now' = t
    /\ UNCHANGED << conversations, lock, bots, pc, payload, i, from_number,
                    message_body, t0, t1, found, bot, reply, response, effects,
                    run_status >>

\* get_or_create is left: its locals are gone.
LeaveCall(r) ==
    /\ t0' = [t0 EXCEPT ![r] = 0]
    /\ t1' = [t1 EXCEPT ![r] = 0]
    /\ found' = [found EXCEPT ![r] = NoEntry]

\* The handler is left with response resp: its locals are gone.
Respond(r, resp) ==
    /\ pc' = [pc EXCEPT ![r] = "done"]
    /\ response' = [response EXCEPT ![r] = resp]
    /\ i' = [i EXCEPT ![r] = 0]
    /\ from_number' = [from_number EXCEPT ![r] = NoUid]
    /\ message_body' = [message_body EXCEPT ![r] = NoText]
    /\ bot' = [bot EXCEPT ![r] = NoBot]
    /\ reply' = [reply EXCEPT ![r] = NoText]
    /\ run_status' = [run_status EXCEPT ![r] = NoRun]
    /\ LeaveCall(r)

\* An exception path that would leave the lock with the thread that raised.
RaiseKeepsLock(r) ==
    /\ Respond(r, Aborted)
    /\ UNCHANGED << now, conversations, lock, bots, effects >>

\* except Exception as ex: abort(400, str(ex)).  An exception that leaves the
\* with block releases the lock on its way out.
Raise(r) ==
    /\ Respond(r, Aborted)
    /\ lock' = IF lock = r THEN Free ELSE lock
    /\ UNCHANGED << now, conversations, bots, effects >>

\* A POST /eventgrid arrives: event = request.get_json().
Receive(r, p) ==
    /\ pc[r] = "idle"
    /\ payload' = [payload EXCEPT ![r] = p]
    /\ IF Decodes(p)
          THEN /\ pc' = [pc EXCEPT ![r] = "loop"]
               /\ i' = [i EXCEPT ![r] = 1]
               /\ UNCHANGED << now, conversations, lock, bots, from_number,
                               message_body, t0, t1, found, bot, reply,
                               response, effects, run_status >>
          ELSE Raise(r)

\* The entry the for loop is at.
AtEntry(r) == pc[r] = "loop" /\ i[r] <= Len(Iterate(payload[r]))
Entry(r) == Iterate(payload[r])[i[r]]

\* The for loop is exhausted: return "", 200.
LoopEnd(r) ==
    /\ pc[r] = "loop"
    /\ i[r] > Len(Iterate(payload[r]))
    /\ Respond(r, Accepted)
    /\ UNCHANGED << now, conversations, lock, bots, payload, effects >>

\* e.get("eventType") on an entry that is not a dict raises AttributeError.
LoopBadEntry(r) ==
    /\ AtEntry(r)
    /\ ~ Entry(r).dict
    /\ Raise(r)
    /\ UNCHANGED payload

\* Mutant: the handshake reply is recorded and the loop goes on.
LoopValidationGoesOn(r) ==
    /\ AtEntry(r)
    /\ Entry(r).dict
    /\ Entry(r).eventType = VALIDATION
    /\ response' = [response EXCEPT ![r] = ValidationReply(Entry(r))]
    /\ i' = [i EXCEPT ![r] = i[r] + 1]
    /\ UNCHANGED << now, conversations, lock, bots, pc, payload, from_number,
                    message_body, t0, t1, found, bot, reply, effects,
                    run_status >>

\* A subscription validation event: return the handshake reply at once.
LoopValidation(r) ==
    /\ AtEntry(r)
    /\ Entry(r).dict
    /\ Entry(r).eventType = VALIDATION
    /\ Respond(r, ValidationReply(Entry(r)))
    /\ UNCHANGED << now, conversations, lock, bots, payload, effects >>

\* Mutant: an event of an unknown type is an error.
LoopOtherRaises(r) ==
    /\ AtEntry(r)
    /\ Entry(r).dict
    /\ Entry(r).eventType \notin {VALIDATION, MESSAGE}
    /\ Raise(r)
    /\ UNCHANGED payload

\* Any other event type: neither branch is taken, the loop goes on.
LoopOther(r) ==
    /\ AtEntry(r)
    /\ Entry(r).dict
    /\ Entry(r).eventType \notin {VALIDATION, MESSAGE}
    /\ i' = [i EXCEPT ![r] = i[r] + 1]
    /\ UNCHANGED << now, conversations, lock, bots, pc, payload, from_number,
                    message_body, t0, t1, found, bot, reply, response, effects,
                    run_status >>

\* A received message: read from and content, normalize the sender, and call
\* conversation_manager.get_or_create, whose first statement reads the clock.
LoopMessage(r) ==
    /\ AtEntry(r)
    /\ Entry(r).dict
    /\ Entry(r).eventType = MESSAGE
    /\ from_number' = [from_number EXCEPT ![r] = normalize(Entry(r).from)]
    /\ message_body' = [message_body EXCEPT ![r] = Entry(r).content]
    /\ effects' = [effects EXCEPT ![r] =
          Append(@, Effect("get_or_create", normalize(Entry(r).from), NoBot, NoText))]
    /\ t0' = [t0 EXCEPT ![r] = now]
    /\ pc' = [pc EXCEPT ![r] = "goc_lock"]
    /\ UNCHANGED << now, conversations, lock, bots, payload, i, t1, found,
                    bot, reply, response, run_status >>

\* get_or_create takes the lock, sweeps, and looks user_id up: an entry that
\* is there gets last_activity = now (the value read before the lock); for a
\* missing one the factory is called, still under the lock.
goc_enter(r) ==
    /\ pc[r] = "goc_lock"
    /\ CanAcquire(lock)
    /\ lock' = r
    /\ t1' = [t1 EXCEPT ![r] = now]
    /\ found' = [found EXCEPT ![r] = conversations[from_number[r]]]
    /\ LET swept == cleanup(conversations, now)
            uid == from_number[r] IN
         IF Has(swept, uid)
           THEN /\ conversations' =
                     [swept EXCEPT ![uid].last_activity = t0[r]]
                /\ pc' = [pc EXCEPT ![r] = "goc_return"]
                /\ UNCHANGED effects
           ELSE /\ conversations' = swept
                /\ pc' = [pc EXCEPT ![r] = "goc_factory"]
                /\ effects' = [effects EXCEPT ![r] =
                      Append(@, Effect("factory", uid, NoBot, NoText))]
    /\ UNCHANGED << now, bots, payload, i, from_number, message_body, t0,
                    bot, reply, response, run_status >>

\* bot_factory() returns a new ChatAssistant, which is stored with
\* last_activity = now (the value read before the lock).
goc_factory_ok(r) ==
    /\ pc[r] = "goc_factory"
    /\ bots' = bots + 1
    /\ conversations' = [conversations EXCEPT ![from_number[r]] =
          [bot |-> bots + 1, last_activity |-> t0[r]]]
    /\ pc' = [pc EXCEPT ![r] = "goc_return"]
    /\ UNCHANGED << now, lock, payload, i, from_number, message_body, t0, t1,
                    found, bot, reply, response, effects, run_status >>

\* bot_factory() raises (ChatAssistant.__init__ talks to the backend).
goc_factory_raise(r) ==
    /\ pc[r] = "goc_factory"
    /\ Raise(r)
    /\ UNCHANGED payload

\* A return that would carry the lock out of get_or_create into bot.chat.
goc_returnKeepsLock(r) ==
    /\ pc[r] = "goc_return"
    /\ Has(conversations, from_number[r])
    /\ bot' = [bot EXCEPT ![r] = conversations[from_number[r]].bot]
    /\ effects' = [effects EXCEPT ![r] =
          Append(@, Effect("chat", from_number[r],
                           conversations[from_number[r]].bot, message_body[r]))]
    /\ pc' = [pc EXCEPT ![r] = "chat"]
    /\ LeaveCall(r)
    /\ UNCHANGED << now, conversations, lock, bots, payload, i, from_number,
                    message_body, reply, response, run_status >>

\* return self.conversations[user_id]["bot"]; the lock is released and the
\* handler calls bot.chat(message_body).
goc_return(r) ==
    /\ pc[r] = "goc_return"
    /\ Has(conversations, from_number[r])
    /\ bot' = [bot EXCEPT ![r] = conversations[from_number[r]].bot]
    /\ lock' = IF lock = r THEN Free ELSE lock
    /\ effects' = [effects EXCEPT ![r] =
          Append(@, Effect("chat", from_number[r],
                           conversations[from_number[r]].bot, message_body[r]))]
    /\ pc' = [pc EXCEPT ![r] = "chat"]
    /\ LeaveCall(r)
    /\ UNCHANGED << now, conversations, bots, payload, i, from_number,
                    message_body, reply, response, run_status >>

\* return self.conversations[user_id]["bot"] when the entry is gone: KeyError.
goc_keyerror(r) ==
    /\ pc[r] = "goc_return"
    /\ ~ Has(conversations, from_number[r])
    /\ Raise(r)
    /\ UNCHANGED payload

\* Another thread calls conversation_manager.cleanup() itself: cleanup takes
\* no lock, it reads the clock and deletes the expired entries.
sweep ==
    /\ conversations' = cleanup(conversations, now)
    /\ UNCHANGED << now, lock, bots, pc, payload, i, from_number, message_body,
                    t0, t1, found, bot, reply, response, effects, run_status >>

\* runs.create or runs.retrieve reports a status the while loop of chat goes on
\* with: chat sleeps a second and asks again.  There is no other way out of
\* the loop, and no limit on the number of rounds.
chat_wait(r, st) ==
    /\ pc[r] = "chat"
    /\ st \in Pending
    /\ run_status' = [run_status EXCEPT ![r] = st]
    /\ UNCHANGED << now, conversations, lock, bots, pc, payload, i, from_number,
                    message_body, t0, t1, found, bot, reply, response, effects >>

\* A chat that would return on whatever status is reported.
chat_okAnyStatus(r, st) ==
    /\ pc[r] = "chat"
    /\ run_status' = [run_status EXCEPT ![r] = st]
    /\ \E text \in ChatResult(bot[r], message_body[r], st) :
         /\ reply' = [reply EXCEPT ![r] = text]
         /\ effects' = [effects EXCEPT ![r] =
               Append(@, Effect("send", from_number[r], bot[r], text))]
    /\ pc' = [pc EXCEPT ![r] = "send"]
    /\ UNCHANGED << now, conversations, lock, bots, payload, i, from_number,
                    message_body, t0, t1, found, bot, response >>

\* runs.create or runs.retrieve reports a status that ends the while loop:
\* bot.chat returns the reply; the handler calls mq.send_text_message.
chat_ok(r, st) ==
    /\ pc[r] = "chat"
    /\ st \notin Pending
    /\ run_status' = [run_status EXCEPT ![r] = st]
    /\ \E text \in ChatResult(bot[r], message_body[r], st) :
         /\ reply' = [reply EXCEPT ![r] = text]
         /\ effects' = [effects EXCEPT ![r] =
               Append(@, Effect("send", from_number[r], bot[r], text))]
    /\ pc' = [pc EXCEPT ![r] = "send"]
    /\ UNCHANGED << now, conversations, lock, bots, payload, i, from_number,
                    message_body, t0, t1, found, bot, response >>

\* bot.chat raises (a call to the backend fails).
chat_raise(r) ==
    /\ pc[r] = "chat"
    /\ Raise(r)
    /\ UNCHANGED payload

\* send_text_message returns; the loop goes on with the next entry.
send_ok(r) ==
    /\ pc[r] = "send"
    /\ pc' = [pc EXCEPT ![r] = "loop"]
    /\ i' = [i EXCEPT ![r] = i[r] + 1]
    /\ run_status' = [run_status EXCEPT ![r] = NoRun]
    /\ UNCHANGED << now, conversations, lock, bots, payload, from_number,
                    message_body, t0, t1, found, bot, reply, response, effects >>

\* send_text_message raises (the messaging client fails).
send_raise(r) ==
    /\ pc[r] = "send"
    /\ Raise(r)
    /\ UNCHANGED payload

\* ---------------------------------------------------------- specifications

\* Concurrent requests, each carrying a batch of message events.
Next ==
    \/ Tick
    \/ \E r \in Requests, p \in MessageBatches : Receive(r, p)
    \/ \E r \in Requests : LoopEnd(r)
    \/ \E r \in Requests : LoopMessage(r)
    \/ \E r \in Requests : goc_enter(r)
    \/ \E r \in Requests : goc_factory_ok(r)
    \/ \E r \in Requests : goc_factory_raise(r)
    \/ \E r \in Requests : goc_return(r)
    \/ \E r \in Requests, st \in Completed : chat_ok(r, st)
    \/ \E r \in Requests : chat_raise(r)
    \/ \E r \in Requests : send_ok(r)
    \/ \E r \in Requests : send_raise(r)

Spec == Init /\ [][Next]_vars

\* One request carrying any body.
NextBatch ==
    \/ Tick
    \/ \E p \in Payloads : Receive("r1", p)
    \/ LoopEnd("r1")
    \/ LoopBadEntry("r1")
    \/ LoopValidation("r1")
    \/ LoopOther("r1")
    \/ LoopMessage("r1")
    \/ goc_enter("r1")
    \/ goc_factory_ok("r1")
    \/ goc_factory_raise("r1")
    \/ goc_return("r1")
    \/ \E st \in Completed : chat_ok("r1", st)
    \/ chat_raise("r1")
    \/ send_ok("r1")
    \/ send_raise("r1")

SpecBatch == Init /\ [][NextBatch]_vars

\* One request carrying any body, and a thread that calls cleanup() directly.
NextSweep ==
    \/ NextBatch
    \/ sweep
    \/ goc_keyerror("r1")

SpecSweep == Init /\ [][NextSweep]_vars

\* What the thread of request r can do next.
Thread(r) ==
    \/ LoopEnd(r)
    \/ LoopMessage(r)
    \/ goc_enter(r)
    \/ goc_factory_ok(r)
    \/ goc_factory_raise(r)
    \/ goc_return(r)
    \/ \E st \in Statuses : chat_wait(r, st)
    \/ \E st \in Statuses : chat_ok(r, st)
    \/ chat_raise(r)
    \/ send_ok(r)
    \/ send_raise(r)

\* Concurrent requests of one message each, with a backend that reports any
\* run status.
NextChat ==
    \/ Tick
    \/ \E r \in Requests, p \in SingleMessages : Receive(r, p)
    \/ \E r \in Requests : Thread(r)

\* Every request thread that can take a step takes one in the end; which
\* status the backend reports is up to the backend.
SpecChat ==
    /\ Init
    /\ [][NextChat]_vars
    /\ \A r \in Requests : WF_vars(Thread(r))

\* ------------------------------------------------------ session store claims

Last(s) == s[Len(s)]

\* Request r is about to return from get_or_create (it still holds the lock).
Returning(r) == pc[r] = "goc_return"

\* The factory was invoked by the get_or_create call r is in.
InvokedFactory(r) == Last(effects[r]).op = "factory"

\* The entry request r found for its sender was live / expired when its
\* sweep read the clock.
FoundLive(r) ==
    found[r] # NoEntry /\ t1[r] - found[r].last_activity <= expiry_seconds
FoundExpired(r) ==
    found[r] # NoEntry /\ t1[r] - found[r].last_activity > expiry_seconds

\* C1: a get_or_create for a sender whose previous call recorded an activity
\* no more than the TTL before this call's sweep returns the handle that is
\* stored, and does not invoke the factory.
C1_LiveEntryIsReused ==
    \A r \in Requests :
        (pc[r] \in {"goc_factory", "goc_return"} /\ FoundLive(r)) =>
            /\ pc[r] = "goc_return"
            /\ ~ InvokedFactory(r)
            /\ conversations[from_number[r]].bot = found[r].bot

\* C1 witness: a second call exactly TTL after the first is about to return
\* the first call's handle.
C1_Witness ==
    \E r \in Requests :
        /\ Returning(r)
        /\ FoundLive(r)
        /\ t1[r] - found[r].last_activity = expiry_seconds
        /\ conversations[from_number[r]].bot = found[r].bot

\* C2: a get_or_create whose sweep runs more than the TTL after the activity
\* recorded for the sender invokes the factory, the expired entry is out of
\* the mapping, and the handle it returns is a new one.
C2_ExpiredEntryIsReplaced ==
    \A r \in Requests :
        (pc[r] \in {"goc_factory", "goc_return"} /\ FoundExpired(r)) =>
            /\ InvokedFactory(r)
            /\ \A u \in Uids : conversations[u].bot # found[r].bot
            /\ Returning(r) =>
                  /\ Has(conversations, from_number[r])
                  /\ conversations[from_number[r]].bot > found[r].bot

\* C2 witness: a call that found an expired entry is about to return a new handle.
C2_Witness ==
    \E r \in Requests :
        /\ Returning(r)
        /\ FoundExpired(r)
        /\ conversations[from_number[r]].bot # found[r].bot

\* C3: the entry whose handle get_or_create returns is live when the call
\* leaves the critical section: now - last_activity <= ttl.
C3_ReturnedEntryIsLive ==
    \A r \in Requests :
        Returning(r) =>
            now - conversations[from_number[r]].last_activity <= expiry_seconds

\* The calls of kind op made for sender uid, over all requests.
Calls(op, uid) ==
    UNION { { <<r, k>> : k \in { n \in DOMAIN effects[r] :
                                   /\ effects[r][n].op = op
                                   /\ effects[r][n].uid = uid } } :
            r \in Requests }

\* The factory invocations for uid that raised.
FailedFactories(uid) ==
    { r \in Requests :
        /\ pc[r] = "done"
        /\ effects[r] # << >>
        /\ Last(effects[r]) = Effect("factory", uid, NoBot, NoText) }

\* The handles get_or_create has returned for uid.
Returned(uid) ==
    { effects[c[1]][c[2]].bot : c \in Calls("chat", uid) }

\* C4: while everything happens within the TTL window, under any
\* interleaving the factory is invoked at most once per sender (not counting
\* invocations that raised), and exactly once when a call for the sender has
\* returned; all calls for a sender return the one handle that the mapping
\* holds for it, and different senders hold different handles.
C4_OneSessionPerSender ==
    now <= expiry_seconds =>
        /\ \A u \in Uids :
              /\ Cardinality(Calls("factory", u)) - Cardinality(FailedFactories(u)) <= 1
              /\ Returned(u) # {} =>
                    /\ Cardinality(Calls("factory", u))
                          - Cardinality(FailedFactories(u)) = 1
                    /\ Returned(u) = { conversations[u].bot }
        /\ \A u, v \in Uids :
              (u # v /\ Has(conversations, u) /\ Has(conversations, v)) =>
                  conversations[u].bot # conversations[v].bot

\* C4 witness: two requests raced for the same sender and both got its handle.
C4_Witness ==
    /\ now <= expiry_seconds
    /\ \E u \in Uids :
          /\ \A r \in Requests : \E k \in 1 .. Len(effects[r]) :
                effects[r][k].op = "chat" /\ effects[r][k].uid = u
          /\ Cardinality(Calls("factory", u)) = 1


\* ------------------------------------------------------ webhook batch claims

IsValidation(e) == e.dict /\ e.eventType = VALIDATION
IsMessage(e) == e.dict /\ e.eventType = MESSAGE

\* The batch of request r, when its body is a JSON list.
IsBatch(r) == pc[r] # "idle" /\ payload[r].shape = "list"
Items(r) == payload[r].items

\* Position of the first validation event of a batch, 0 when it has none.
FirstValidation(items) ==
    IF \E k \in DOMAIN items : IsValidation(items[k])
      THEN CHOOSE k \in DOMAIN items :
             /\ IsValidation(items[k])
             /\ \A j \in 1 .. k - 1 : ~ IsValidation(items[j])
      ELSE 0

\* Every entry of the batch is an event structure.
AllEvents(items) == \A k \in DOMAIN items : items[k].dict

\* The number of message events among the first n entries.
MessagesIn(items, n) ==
    Cardinality({ k \in DOMAIN items : k <= n /\ IsMessage(items[k]) })

\* The session lookups request r has made.
Lookups(r) ==
    Cardinality({ k \in DOMAIN effects[r] : effects[r][k].op = "get_or_create" })

\* C5: a batch of events that contains a validation event is answered with
\* the validation reply (of its first validation event) and status 200,
\* whatever comes before or after that event.
C5_ValidationAlwaysAnswered ==
    \A r \in Requests :
        (/\ pc[r] = "done"
         /\ IsBatch(r)
         /\ AllEvents(Items(r))
         /\ FirstValidation(Items(r)) > 0) =>
            response[r] = ValidationReply(Items(r)[FirstValidation(Items(r))])

\* C6: a request that answers the validation event of its batch has made no
\* session lookup, no respond call and no outbound send, wherever the
\* validation event sits in the batch.
C6_ValidationHasNoSideEffect ==
    \A r \in Requests :
        (/\ pc[r] = "done"
         /\ IsBatch(r)
         /\ AllEvents(Items(r))
         /\ FirstValidation(Items(r)) > 0
         /\ response[r] = ValidationReply(Items(r)[FirstValidation(Items(r))])) =>
            effects[r] = << >>

\* C7: nothing after the first validation event of a batch is processed (the
\* loop never goes past it, and the session lookups are at most those of the
\* message events before it); a request that has a response is finished, so
\* no second reply follows; and a validation reply is that of the first
\* validation event.
C7_StopsAtValidation ==
    \A r \in Requests :
        /\ response[r] # NoResponse => pc[r] = "done"
        /\ (IsBatch(r) /\ FirstValidation(Items(r)) > 0) =>
              LET fv == FirstValidation(Items(r)) IN
                /\ i[r] <= fv
                /\ Lookups(r) <= MessagesIn(Items(r), fv)
                /\ response[r] \in { NoResponse, Aborted, ValidationReply(Items(r)[fv]) }

\* C7 witness: a batch with a message event after its validation event was
\* answered with the validation reply, and the message was not processed.
C7_Witness ==
    \E r \in Requests :
        /\ pc[r] = "done"
        /\ IsBatch(r)
        /\ FirstValidation(Items(r)) > 0
        /\ \E k \in DOMAIN Items(r) :
              k > FirstValidation(Items(r)) /\ IsMessage(Items(r)[k])
        /\ response[r] = ValidationReply(Items(r)[FirstValidation(Items(r))])
        /\ effects[r] = << >>

\* C8: in a batch of message events every message event is processed, also
\* when a call made for an earlier one failed.
C8_LaterMessagesStillProcessed ==
    \A r \in Requests :
        (/\ pc[r] = "done"
         /\ IsBatch(r)
         /\ \A k \in DOMAIN Items(r) : IsMessage(Items(r)[k])) =>
            Lookups(r) = Len(Items(r))

MessagesOf(items) == SelectSeq(items, IsMessage)

\* The calls of request r other than the factory invocations, in order.
IsStep(x) == x.op # "factory"
Steps(r) == SelectSeq(effects[r], IsStep)

\* uid is sender f with exactly one "+" in front.
SinglePlus(uid, f) ==
    /\ Len(uid) > 0
    /\ uid[1] = "+"
    /\ Tail(uid) = IF Len(f) > 0 /\ f[1] = "+" THEN Tail(f) ELSE f
    /\ Len(uid) > 1 => uid[2] # "+"

\* C10: every session lookup is made for a sender with one leading "+"; and a
\* batch that is accepted (no validation event, no failing call) has made,
\* for its message events in their order, these calls in this order:
\* get_or_create for the normalized sender, respond on the handle returned
\* with the message text, one send of the reply to the normalized sender.
C10_MessagesHandledInOrder ==
    \A r \in Requests :
        /\ \A k \in DOMAIN effects[r] :
              /\ Len(effects[r][k].uid) > 0
              /\ effects[r][k].uid[1] = "+"
              /\ Len(effects[r][k].uid) > 1 => effects[r][k].uid[2] # "+"
        /\ (pc[r] = "done" /\ IsBatch(r) /\ response[r] = Accepted) =>
              LET m == MessagesOf(Items(r))
                  s == Steps(r) IN
                /\ Len(s) = 3 * Len(m)
                /\ \A j \in DOMAIN m :
                      LET look == s[3 * j - 2]
                          chat == s[3 * j - 1]
                          send == s[3 * j] IN
                        /\ look.op = "get_or_create"
                        /\ SinglePlus(look.uid, m[j].from)
                        /\ chat.op = "chat"
                        /\ chat.uid = look.uid
                        /\ chat.bot # NoBot
                        /\ chat.text = m[j].content
                        /\ send.op = "send"
                        /\ send.uid = look.uid
                        /\ send.bot = chat.bot
                        /\ send.text \in Replies(chat.bot, m[j].content)

\* C10 witness: an accepted batch of two messages with different texts, the
\* first from a sender written without the "+".
C10_Witness ==
    \E r \in Requests :
        /\ pc[r] = "done"
        /\ IsBatch(r)
        /\ response[r] = Accepted
        /\ Len(MessagesOf(Items(r))) = 2
        /\ ~ startswith_plus(Items(r)[1].from)
        /\ Items(r)[1].content # Items(r)[2].content
        /\ Len(Steps(r)) = 6

\* C11: a body that is a single event structure is handled as the batch of
\* that one event: a validation event gets its validation reply, a message
\* event gets its session looked up.
C11_SingleEventIsABatchOfOne ==
    \A r \in Requests :
        (pc[r] = "done" /\ payload[r].shape = "dict") =>
            LET e == payload[r].items[1] IN
              /\ IsValidation(e) => response[r] = ValidationReply(e)
              /\ IsMessage(e) => Lookups(r) = 1

\* An entry that is not an event structure.
IsMalformed(e) == ~ e.dict

\* Position of the first malformed entry of a batch, 0 when it has none.
FirstMalformed(items) ==
    IF \E k \in DOMAIN items : IsMalformed(items[k])
      THEN CHOOSE k \in DOMAIN items :
             /\ IsMalformed(items[k])
             /\ \A j \in 1 .. k - 1 : ~ IsMalformed(items[j])
      ELSE 0

\* The batch of r mixes validation events with malformed entries (and events
\* of other types, but no message event ahead of the validation event), and
\* its first validation event comes before its first malformed entry.
ValidationBeforeMalformed(r) ==
    /\ IsBatch(r)
    /\ FirstValidation(Items(r)) > 0
    /\ FirstMalformed(Items(r)) > FirstValidation(Items(r))
    /\ MessagesIn(Items(r), FirstValidation(Items(r))) = 0

IsOther(e) == e.dict /\ e.eventType \notin {VALIDATION, MESSAGE}

\* The number of entries the loop of r has gone past or is handling.
Reached(r) ==
    IF pc[r] = "loop" THEN i[r] - 1 ELSE i[r]

\* C13: events of other types cause no call: while a batch is being handled
\* the session lookups made are exactly those of the message events reached,
\* and every respond call and send belongs to one of them; a batch of events
\* of other types only is answered with status 200 and an empty body; and a
\* batch of events without a validation event is answered with status 200
\* and an empty body unless a call made for one of its messages failed.
C13_OtherEventsAreIgnored ==
    \A r \in Requests :
        /\ (IsBatch(r) /\ pc[r] # "done") =>
              /\ Lookups(r) = MessagesIn(Items(r), Reached(r))
              /\ Len(Steps(r)) <= 3 * Lookups(r)
        /\ (IsBatch(r) /\ \A k \in DOMAIN Items(r) : IsOther(Items(r)[k])) =>
              /\ effects[r] = << >>
              /\ pc[r] = "done" => (response[r].status = 200 /\ response[r].body = << >>)
        /\ (/\ IsBatch(r)
            /\ pc[r] = "done"
            /\ AllEvents(Items(r))
            /\ FirstValidation(Items(r)) = 0
            /\ response[r] # Accepted) =>
              (response[r] = Aborted /\ Lookups(r) > 0)

\* C13 witness: a batch with an event of another type ahead of a message
\* event is accepted, with the calls of the message event only.
C13_Witness ==
    \E r \in Requests :
        /\ pc[r] = "done"
        /\ IsBatch(r)
        /\ Len(Items(r)) = 2
        /\ IsOther(Items(r)[1])
        /\ IsMessage(Items(r)[2])
        /\ response[r] = Accepted
        /\ Len(Steps(r)) = 3

\* ------------------------------------------------------------ sweep claims

\* Entry u of the mapping after a sweep at time t of the mapping before.
SweptAt(before, after, t, u) ==
    IF before[u] # NoEntry /\ t - before[u].last_activity > expiry_seconds
      THEN after[u] = NoEntry
      ELSE after[u] = before[u]

\* C14: a call of cleanup() removes every entry older than the TTL and leaves
\* every other entry as it was, and what it leaves holds no entry a second
\* sweep at the same instant would remove; the sweep inside get_or_create
\* does the same to the entries of the other senders.
C14_SweepRemovesExactlyTheExpired ==
    [][ /\ (pc' = pc /\ i' = i /\ now' = now) =>
              \A u \in Uids :
                  /\ SweptAt(conversations, conversations', now, u)
                  /\ SweptAt(conversations', conversations', now, u)
        /\ \A r \in Requests :
              (pc[r] = "goc_lock" /\ pc'[r] # "goc_lock") =>
                  \A u \in Uids \ {from_number[r]} :
                      SweptAt(conversations, conversations', now, u) ]_vars

\* C14 witness: the only request made so far got a handle for its sender, and
\* the mapping is empty again: a direct sweep removed the expired entry.
C14_Witness ==
    /\ \E r \in Requests :
          /\ pc[r] = "done"
          /\ response[r] = Accepted
          /\ effects[r] # << >>
          /\ \A q \in Requests \ {r} : pc[q] = "idle"
    /\ \A u \in Uids : ~ Has(conversations, u)

\* C15: whatever a concurrent cleanup() call does, a get_or_create that found
\* or inserted its entry holds the lock and still finds the entry when it
\* returns the handle.
C15_GetOrCreateReturnsItsEntry ==
    \A r \in Requests :
        Returning(r) => (lock = r /\ Has(conversations, from_number[r]))

\* -------------------------------------------------------- concurrency claims

\* C16: the lock of the session store is never held by a request that is
\* inside bot.chat or send_text_message, and the one outside call made with the
\* lock held is the factory: a request at the factory call holds the lock.
C16_LockNotHeldDuringRespondOrSend ==
    \A r \in Requests :
        /\ pc[r] \in {"chat", "send"} => lock # r
        /\ pc[r] = "goc_factory" => lock = r

\* C16 witness: one request is inside bot.chat or send_text_message for one
\* sender while another one holds the lock for a different sender.
C16_Witness ==
    \E r, q \in Requests :
        /\ pc[r] \in {"chat", "send"}
        /\ pc[q] \in {"goc_factory", "goc_return"}
        /\ lock = q
        /\ from_number[q] # from_number[r]

\* C17: while the session of a sender stays in the mapping, its stored
\* last_activity never decreases.
C17_LastActivityNeverDecreases ==
    [][ \A u \in Uids :
          ( /\ Has(conversations, u)
            /\ Has(conversations', u)
            /\ conversations'[u].bot = conversations[u].bot ) =>
              conversations'[u].last_activity >= conversations[u].last_activity ]_vars

\* C18: a factory that raises releases the lock and leaves the mapping as the
\* sweep left it, without an entry for the sender; whoever holds the lock is
\* inside get_or_create; and a later get_or_create for that sender that
\* finds no entry invokes the factory again.
C18_FailedFactoryLeavesNoTrace ==
    /\ [] (lock # Free => pc[lock] \in {"goc_factory", "goc_return"})
    /\ [][ \A r \in Requests :
             /\ (pc[r] = "goc_lock" /\ pc'[r] = "goc_factory") =>
                   /\ conversations' = cleanup(conversations, now)
                   /\ ~ Has(conversations', from_number[r])
             /\ (pc[r] = "goc_factory" /\ pc'[r] = "done") =>
                   /\ lock' = Free
                   /\ response'[r] = Aborted
                   /\ conversations' = conversations
                   /\ ~ Has(conversations', from_number[r])
             /\ ( /\ pc[r] = "goc_lock" /\ pc'[r] # "goc_lock"
                  /\ FailedFactories(from_number[r]) # {}
                  /\ ~ Has(conversations, from_number[r]) ) =>
                   /\ pc'[r] = "goc_factory"
                   /\ Last(effects'[r]) = Effect("factory", from_number[r], NoBot, NoText) ]_vars

\* C18 witness: the factory raised for a sender, and a later get_or_create
\* for the same sender has taken the lock and is at the factory call.
C18_Witness ==
    \E u \in Uids, q \in Requests :
        /\ FailedFactories(u) # {}
        /\ q \notin FailedFactories(u)
        /\ pc[q] = "goc_factory"
        /\ from_number[q] = u
        /\ lock = q

\* C19: two requests for one sender that are inside bot.chat at the same time,
\* within the TTL window, are inside it on the same handle, the one the mapping
\* holds for the sender.
C19_ConcurrentRespondSharesHandle ==
    now <= expiry_seconds =>
        \A r, q \in Requests :
            ( /\ pc[r] = "chat" /\ pc[q] = "chat"
              /\ from_number[r] = from_number[q] ) =>
                /\ bot[r] = bot[q]
                /\ bot[r] = conversations[from_number[r]].bot

\* C19 witness: both requests are inside bot.chat on one handle.
C19_Witness ==
    /\ now <= expiry_seconds
    /\ \E r, q \in Requests :
          /\ r # q
          /\ pc[r] = "chat" /\ pc[q] = "chat"
          /\ from_number[r] = from_number[q]
          /\ bot[r] = bot[q]
          /\ bot[r] # NoBot

\* ---------------------------------------------------------- polling claims

Polling(r) == pc[r] = "chat" /\ run_status[r] \in Pending

\* C20: chat is left only with a reported status outside Pending (or by an
\* exception of a backend call, answered 400), so there is no deadline; a
\* request either stays inside one chat call for ever or ends up answered;
\* and a request that waits for the lock of the store gets it, whatever the
\* requests inside chat do.
C20_ChatReturnsOnlyOnFinalStatus ==
    /\ [][ \A r \in Requests :
             (pc[r] = "chat" /\ pc'[r] # "chat") =>
                 \/ /\ pc'[r] = "send"
                    /\ run_status'[r] \in Statuses \ Pending
                    /\ reply'[r] \in ChatResult(bot[r], message_body[r], run_status'[r])
                 \/ /\ pc'[r] = "done"
                    /\ response'[r] = Aborted ]_vars
    /\ \A r \in Requests :
          \/ <>[](pc[r] = "chat")
          \/ <>[](pc[r] \in {"idle", "done"})
    /\ \A r \in Requests :
          (pc[r] = "goc_lock") ~> (pc[r] # "goc_lock")

\* C20 witness: one request is inside the polling loop of chat while another
\* one has taken the lock of the store.
C20_Witness ==
    \E r, q \in Requests :
        /\ Polling(r)
        /\ pc[q] \in {"goc_factory", "goc_return"}
        /\ lock = q

====
